---- MODULE Spec2Model ----
(***************************************************************************)
(* State-machine model of the IoT gate: the gateway plugin that routes     *)
(* MQTT messages to the registered device plugins                           *)
(* (plugins/iotgate_iotgate.py) and the cooling-fan plugin with its         *)
(* hysteresis control (plugins/iotgate_fan.py).                             *)
(*                                                                          *)
(* A handler is a piece of sequential Python that may raise half way.  It   *)
(* is modelled as an operator from an execution context to an execution    *)
(* context; the context carries the device objects, what the handler has    *)
(* published and stored so far, and whether an exception is propagating.    *)
(* An action runs one whole handler on the current state and commits the    *)
(* resulting context.                                                       *)
(***************************************************************************)
EXTENDS Integers, Sequences, FiniteSets, TLC

VARIABLES
    devices,    \* gateway's self.devices: registered dids in dict order
    sfan,       \* the fan plugin object: GPIO pin, cached percentage, params
    iotgate,    \* the gateway plugin object: _period, params, timer period
    op,         \* the handler that ran last, its arguments, the state before
    calls,      \* handler invocations the router made in the last dispatch
    pubs,       \* messages published by the last handler, in order
    nset,       \* number of set_param calls made by the last handler
    nstatus,    \* number of publish_status calls made by the last handler
    fault,      \* "" or the exception that left the last handler
    hyst,       \* observer: progress of the monitored sequence 95,85,75,65,55
    connection, \* status of the connection to the MQTT broker
    inbox,      \* transport: inbound messages not yet handed to the gateway
    delivered,  \* transport: messages handed to the gateway so far, in order
    history,    \* observer: what the gateway did, in order
    life,       \* the gateway's lifecycle phase and the running triggers
    tspeak,     \* the ThingSpeak plugin object: buffer, timestamp, trigger
    now,        \* the clock read by time(), in seconds
    cloud,      \* observer: the times of the successful cloud publishes
    server,     \* the server plugin object: period and its trigger's period
    pc          \* position of each thread inside ThingSpeak's publish_buffer

vars ==
    <<devices, sfan, iotgate, op, calls, pubs, nset, nstatus, fault, hyst,
      connection, inbox, delivered, history, life, tspeak, now, cloud,
      server, pc>>

(***************************************************************************)
(* Values of the library enumerations the plugins compare against.         *)
(***************************************************************************)
None == "None"                       \* Python None: an absent value

CategoryCommand == "command"
CategoryStatus == "status"
CategoryData == "data"

MeasureValue == "value"
MeasureDefault == "default"
MeasurePercentage == "percentage"

CommandGetStatus == "get_status"
CommandReset == "reset"
CommandTurnOn == "on"
CommandTurnOff == "off"
CommandToggle == "toggle"

StatusActive == "active"
StatusIdle == "idle"
StatusUnknown == "unknown"

\* Device identifiers
DidGate == "iotgate"
DidFan == "sfan"
DidServer == "server"
DidCloud == "thingspeak"
DidBlynk == "blynk"

\* Parameter names
ParamFanActivity == "run"
ParamPercentageOn == "percon"
ParamPercentageOff == "percoff"
ParamTemperature == "temp"
ParamPeriod == "period"

\* Fan thresholds (class PercentageOn, class PercentageOff)
PercentageOnDefault == 90
PercentageOnMinimum == 80
PercentageOnMaximum == 95
PercentageOffDefault == 60
PercentageOffMinimum == 50
PercentageOffMaximum == 75

\* Gateway reconnect timer (class Timer)
TimerDefault == 30
TimerMinimum == 5
TimerMaximum == 180

\* ThingSpeak: Device.Timer
CloudTimerDefault == 30
CloudTimerMinimum == 15
CloudTimerMaximum == 600

\* Server's temperature reading period (class Timer of plugins/iotgate_system)
ServerTimerDefault == 5
ServerTimerMinimum == 1
ServerTimerMaximum == 60

\* the threads that run ThingSpeak's code: the trigger's and the MQTT client's
Threads == {"timer", "mqtt"}

(***************************************************************************)
(* float(): the numeric texts used as payloads and the numbers they parse  *)
(* to.  Any other text raises ValueError.                                   *)
(***************************************************************************)
NaN == -999                          \* stands for float('nan')

FloatTable ==
    [s \in {"nan", "-85", "0", "45", "55", "60", "65", "75", "85", "90",
            "95", "99"} |->
        CASE s = "nan" -> NaN
          [] s = "-85" -> -85
          [] s = "0" -> 0
          [] s = "45" -> 45
          [] s = "55" -> 55
          [] s = "60" -> 60
          [] s = "65" -> 65
          [] s = "75" -> 75
          [] s = "85" -> 85
          [] s = "90" -> 90
          [] s = "95" -> 95
          [] s = "99" -> 99]

IsFloat(s) == s \in DOMAIN FloatTable

Float(s) == FloatTable[s]

\* Python truthiness of a payload: None and the empty string are falsy
Truthy(x) == x # None /\ x # ""

\* every comparison of floats with a NaN on either side is false
Ordered(a, b) == a # NaN /\ b # NaN

\* f'{value}' of a float
Text(x) == IF x = NaN THEN "nan" ELSE ToString(x)

Abs(x) == IF x = NaN THEN NaN ELSE IF x < 0 THEN -x ELSE x

\* min(a, b): a unless b < a
Min(a, b) == IF Ordered(a, b) /\ b < a THEN b ELSE a

\* max(a, b): a unless b > a
Max(a, b) == IF Ordered(a, b) /\ b > a THEN b ELSE a

\* min(max(abs(new), MINIMUM), MAXIMUM)
Sanitize(new, minimum, maximum) == Min(Max(Abs(new), minimum), maximum)

(***************************************************************************)
(* Execution context and the plugin base class (parameter store).          *)
(***************************************************************************)
Context ==
    [sfan |-> sfan, iotgate |-> iotgate, calls |-> <<>>, pubs |-> <<>>,
     nset |-> 0, nstatus |-> 0, fault |-> "", parts |-> <<>>,
     faulty |-> {}, current |-> <<>>, trace |-> <<>>,
     connection |-> connection, life |-> life, tspeak |-> tspeak,
     now |-> now, cloud |-> cloud, server |-> server]

Raise(c, exception) == [c EXCEPT !.fault = exception]

\* Plugin.set_param: overwrite the entry of the device's store
set_param(c, dev, key, value) ==
    [c EXCEPT ![dev].params[key] = value, !.nset = @ + 1]

Message(did, category, parameter, measure, payload) ==
    [did |-> did, category |-> category, parameter |-> parameter,
     measure |-> measure, payload |-> payload]

\* Plugin.publish_param: publish the stored value on the device's topic
publish_param(c, dev, parameter, measure, payload) ==
    [c EXCEPT !.pubs =
        Append(@, Message(dev, CategoryStatus, parameter, measure, payload))]

\* Plugin.publish_status: republish the device's full status
publish_status(c, dev) == [c EXCEPT !.nstatus = @ + 1]

(***************************************************************************)
(* Fan plugin (plugins/iotgate_fan.py)                                      *)
(***************************************************************************)
\* Device.activity: the pin is an output after __init__, HIGH or LOW
activity(c) == IF c.sfan.pin = "HIGH" THEN StatusActive ELSE StatusIdle

\* Device.percon (getter)
percon(c) == c.sfan.params.percon_value

\* Device.percoff (getter): reads the DEFAULT measure
percoff(c) == c.sfan.params.percoff_default

fan_command_always(c, command) ==
    publish_param(set_param(c, DidFan, "run", activity(c)),
                  DidFan, ParamFanActivity, None, activity(c))

\* decorator fan_command, after func(self) returned `command`
fan_command(c, command) ==
    IF command # None
    THEN publish_param(set_param(c, DidFan, "run", activity(c)),
                       DidFan, ParamFanActivity, None, activity(c))
    ELSE c

fan_on_unguarded(c) ==
    fan_command([c EXCEPT !.sfan.pin = "HIGH"], CommandTurnOn)

fan_on(c) ==
    IF c.sfan.pin = "LOW"
    THEN fan_command([c EXCEPT !.sfan.pin = "HIGH"], CommandTurnOn)
    ELSE fan_command(c, None)

fan_off_unguarded(c) ==
    fan_command([c EXCEPT !.sfan.pin = "LOW"], CommandTurnOff)

fan_off(c) ==
    IF c.sfan.pin = "HIGH"
    THEN fan_command([c EXCEPT !.sfan.pin = "LOW"], CommandTurnOff)
    ELSE fan_command(c, None)

fan_toggle_silent(c) ==
    [c EXCEPT !.sfan.pin = IF @ = "HIGH" THEN "LOW" ELSE "HIGH"]

fan_toggle(c) ==
    fan_command([c EXCEPT !.sfan.pin = IF @ = "HIGH" THEN "LOW" ELSE "HIGH"],
                CommandToggle)

\* Device.fan_process: comparing None with a float raises TypeError
fan_process(c) ==
    IF c.sfan.percentage = <<>>
    THEN Raise(c, "TypeError")
    ELSE LET m == c.sfan.percentage[1]
         IN  IF Ordered(m, percon(c)) /\ m >= percon(c) THEN fan_on(c)
             ELSE IF Ordered(m, percoff(c)) /\ m <= percoff(c)
             THEN fan_off(c)
             ELSE c

\* Device.percon (setter)
percon_setter(c, raw) ==
    IF Truthy(raw) /\ ~IsFloat(raw)
    THEN c                                          \* ValueError: pass
    ELSE LET old == percon(c)
             new == IF Truthy(raw) THEN Float(raw) ELSE PercentageOnDefault
         IN  IF Ordered(old, new) /\ old = new
             THEN c                                 \* raise ValueError: pass
             ELSE LET val == Sanitize(new, PercentageOnMinimum,
                                      PercentageOnMaximum)
                  IN  fan_process(
                        publish_param(
                          set_param(c, DidFan, "percon_value", val),
                          DidFan, ParamPercentageOn, MeasureValue,
                          Text(val)))

\* Device.percoff (setter)
percoff_setter(c, raw) ==
    IF Truthy(raw) /\ ~IsFloat(raw)
    THEN c
    ELSE LET old == percoff(c)
             new == IF Truthy(raw) THEN Float(raw) ELSE PercentageOffDefault
         IN  IF Ordered(old, new) /\ old = new
             THEN c
             ELSE LET val == Sanitize(new, PercentageOffMinimum,
                                      PercentageOffMaximum)
                  IN  fan_process(
                        publish_param(
                          set_param(c, DidFan, "percoff_value", val),
                          DidFan, ParamPercentageOff, MeasureValue,
                          Text(val)))

\* then(c, f): the next statement runs only if no exception is propagating
sfan_reset(c) ==
    LET c1 == percon_setter(c, None)
    IN  IF c1.fault # "" THEN c1 ELSE percoff_setter(c1, None)

sfan_generic_command_twice(c, value) ==
    IF value = CommandGetStatus
    THEN publish_status(publish_status(c, DidFan), DidFan)
    ELSE IF value = CommandTurnOn THEN fan_on(c)
    ELSE IF value = CommandTurnOff THEN fan_off(c)
    ELSE IF value = CommandToggle THEN fan_toggle(c)
    ELSE IF value = CommandReset THEN sfan_reset(c)
    ELSE c

sfan_generic_command(c, value) ==
    IF value = CommandGetStatus THEN publish_status(c, DidFan)
    ELSE IF value = CommandTurnOn THEN fan_on(c)
    ELSE IF value = CommandTurnOff THEN fan_off(c)
    ELSE IF value = CommandToggle THEN fan_toggle(c)
    ELSE IF value = CommandReset THEN sfan_reset(c)
    ELSE c

sfan_process_own_command_any_address(c, value, parameter, measure) ==
    LET c1 == sfan_generic_command(c, value)
        c2 == IF c1.fault = "" /\ parameter = ParamPercentageOn
                              /\ measure = MeasureValue
              THEN percon_setter(c1, value)
              ELSE c1
    IN  IF c2.fault = "" /\ parameter = ParamPercentageOff
                         /\ measure = MeasureValue
        THEN percoff_setter(c2, value)
        ELSE c2

\* Device.process_own_command of the fan
sfan_process_own_command(c, value, parameter, measure) ==
    LET c1 == IF parameter = None /\ measure = None
              THEN sfan_generic_command(c, value)
              ELSE c
        c2 == IF c1.fault = "" /\ parameter = ParamPercentageOn
                              /\ measure = MeasureValue
              THEN percon_setter(c1, value)
              ELSE c1
    IN  IF c2.fault = "" /\ parameter = ParamPercentageOff
                         /\ measure = MeasureValue
        THEN percoff_setter(c2, value)
        ELSE c2

sfan_process_data_uncaught(c, value, parameter, measure, device) ==
    IF device = DidServer /\ parameter = ParamTemperature
                          /\ measure = MeasurePercentage
    THEN IF IsFloat(value)
         THEN fan_process([c EXCEPT !.sfan.percentage = <<Float(value)>>])
         ELSE Raise(c, "ValueError")
    ELSE c

\* Device.process_data of the fan; `device` is the did of the object passed
sfan_process_data(c, value, parameter, measure, device) ==
    IF device = DidServer /\ parameter = ParamTemperature
                          /\ measure = MeasurePercentage
    THEN IF IsFloat(value)
         THEN fan_process([c EXCEPT !.sfan.percentage = <<Float(value)>>])
         ELSE c
    ELSE c

(***************************************************************************)
(* Gateway plugin (plugins/iotgate_iotgate.py)                              *)
(***************************************************************************)
\* device.period (setter), from the sanitized assignment on:
\* `new` is float(period or DEFAULT), already stored in self._period
gate_period_assign(c, new) ==
    IF Ordered(c.iotgate.period, new) /\ c.iotgate.period = new
    THEN c                                          \* raise ValueError: pass
    ELSE LET val == Sanitize(new, TimerMinimum, TimerMaximum)
         IN  publish_param(
               set_param([c EXCEPT !.iotgate.period = val,
                                   !.iotgate.timer_period = val],
                         DidGate, "period_default", val),
               DidGate, ParamPeriod, MeasureDefault, Text(val))

\* device.period (setter) called with a payload
gate_period_setter(c, raw) ==
    IF Truthy(raw) /\ ~IsFloat(raw)
    THEN c                                          \* ValueError: pass
    ELSE gate_period_assign(c, IF Truthy(raw) THEN Float(raw)
                                              ELSE TimerDefault)

\* device.process_command of the gateway
gate_process_command(c, value, parameter, measure) ==
    LET c1 == IF parameter = None /\ measure = None
              THEN IF value = CommandGetStatus
                   THEN publish_status(c, DidGate)
                   ELSE IF value = CommandReset
                   THEN publish_status(gate_period_assign(c, TimerDefault),
                                       DidGate)
                   ELSE c
              ELSE c
    IN  IF parameter = ParamPeriod /\ measure = MeasureValue
        THEN gate_period_setter(c1, value)
        ELSE c1

(***************************************************************************)
(* What each plugin class defines, and what the plugin base class gives    *)
(* every device.                                                            *)
(***************************************************************************)
ClassDefines(device) ==
    CASE device = DidGate -> {"id", "period", "begin", "finish",
                              "process_command"}
      [] device = DidFan -> {"did", "activity", "percon", "percoff", "begin",
                             "process_own_command", "process_data"}
      [] device = DidServer -> {"did", "period", "begin", "finish",
                                "process_own_command"}
      [] OTHER -> {}

\* The device contract: lifecycle, the three handlers, the store
PluginBase ==
    {"begin", "finish", "process_own_command", "process_status",
     "process_data", "set_param", "get_param", "publish_param",
     "publish_status"}

HasAttr(device, name) == name \in ClassDefines(device) \cup PluginBase

\* device.id of the gateway: the module name's part after '_'
AttrId(device) == DidGate

(***************************************************************************)
(* Topic codec: a topic is a sequence of tokens, "/" being the separator.  *)
(***************************************************************************)
SeparatorTopic == "/"

RECURSIVE SplitFrom(_, _, _, _, _)
SplitFrom(topic, i, maxsplit, current, parts) ==
    IF i > Len(topic)
    THEN Append(parts, current)
    ELSE IF topic[i] = SeparatorTopic /\ Len(parts) < maxsplit
    THEN SplitFrom(topic, i + 1, maxsplit, "", Append(parts, current))
    ELSE SplitFrom(topic, i + 1, maxsplit, current \o topic[i], parts)

Split_truncated(topic, maxsplit) ==
    LET parts == SplitFrom(topic, 1, maxsplit, "", <<>>)
    IN  SubSeq(parts, 1, Min(Len(parts), maxsplit))

Split_short(topic, maxsplit) == SplitFrom(topic, 1, maxsplit - 2, "", <<>>)

\* str.split(sep, maxsplit)
Split(topic, maxsplit) == SplitFrom(topic, 1, maxsplit, "", <<>>)

maxvars == 4

\* msg_parts.extend([None] * (maxvars - len(msg_parts)))
Extend(msg_parts) ==
    msg_parts \o [i \in 1..(maxvars - Len(msg_parts)) |-> None]

\* sep.join(segments)
RECURSIVE Join(_)
Join(segments) ==
    IF Len(segments) = 0 THEN <<>>
    ELSE IF Len(segments) = 1 THEN <<segments[1]>>
    ELSE <<segments[1], SeparatorTopic>> \o Join(Tail(segments))

(***************************************************************************)
(* Router: device._callback_on_message                                      *)
(***************************************************************************)
Call(device, method, value, parameter, measure, source) ==
    [device |-> device, method |-> method, value |-> value,
     parameter |-> parameter, measure |-> measure, source |-> source]

Event(event, current, device) ==
    [event |-> event, message |-> current, device |-> device]

\* the router calls a handler of `call.device`
Called(c, call) ==
    [c EXCEPT !.calls = Append(@, call),
              !.trace = Append(@, Event("call", c.current, call.device))]

\* an unexpected fault inside the handler of a device in c.faulty
HandlerFault(c, device) ==
    IF device \in c.faulty THEN Raise(c, "HandlerFault") ELSE c

\* the topic a published message travels on
TopicOf(message) ==
    Join(<<message.did, message.category>>
         \o (IF message.parameter = None THEN <<>> ELSE <<message.parameter>>)
         \o (IF message.measure = None THEN <<>> ELSE <<message.measure>>))

RECURSIVE on_message(_, _, _)

RECURSIVE reenter(_, _)
reenter(c, i) ==
    IF i > Len(c.pubs)
    THEN c
    ELSE reenter(on_message(c, TopicOf(c.pubs[i]), c.pubs[i].payload), i + 1)

invoke_command_reentrant(c, device, value, parameter, measure) ==
    IF ~HasAttr(device, "process_command")
    THEN Raise(c, "AttributeError")
    ELSE reenter(gate_process_command(
                   Called(c, Call(device, "process_command", value,
                                  parameter, measure, None)),
                   value, parameter, measure),
                 1)

\* device.process_command(payload, parameter, measure)
invoke_command(c, device, value, parameter, measure) ==
    IF ~HasAttr(device, "process_command")
    THEN Raise(c, "AttributeError")
    ELSE gate_process_command(
           Called(c, Call(device, "process_command", value, parameter,
                          measure, None)),
           value, parameter, measure)

\* device.process_status(payload, parameter, measure, device)
invoke_status(c, device, value, parameter, measure, source) ==
    HandlerFault(Called(c, Call(device, "process_status", value, parameter,
                                measure, source)),
                 device)

\* device.process_data(payload, parameter, measure, device)
invoke_data(c, device, value, parameter, measure, source) ==
    LET c1 == HandlerFault(Called(c, Call(device, "process_data", value,
                                          parameter, measure, source)),
                           device)
    IN  IF c1.fault = "" /\ device = DidFan
        THEN sfan_process_data(c1, value, parameter, measure, source)
        ELSE c1

IsSource_never(device_id, device) == FALSE

\* if device_id == device.id: continue
IsSource(device_id, device) == device_id = AttrId(device)

\* the body of `for device in self.devices.values()` for the i-th device
RECURSIVE dispatch(_, _, _, _, _, _, _)
dispatch(c, i, device_id, category, payload, parameter, measure) ==
    IF i > Len(devices) \/ c.fault # ""
    THEN c
    ELSE LET device == devices[i]
             next(c1) == dispatch(c1, i + 1, device_id, category, payload,
                                  parameter, measure)
         IN  IF ~HasAttr(device, "id")
             THEN Raise(c, "AttributeError")
             ELSE IF IsSource(device_id, device)
             THEN next(c)
             ELSE IF category = CategoryStatus
             THEN next(invoke_status(c, device, payload, parameter, measure,
                                     device))
             ELSE IF category = CategoryData
             THEN next(invoke_data(c, device, payload, parameter, measure,
                                   device))
             ELSE next(c)

Registered_any(device_id) == TRUE

\* device_id in self.devices
Registered(device_id) == \E i \in 1..Len(devices) : devices[i] = device_id

IsEmptyPayload_none(payload) == payload = None

\* payload is None or len(payload) == 0
IsEmptyPayload(payload) == payload = None \/ payload = ""

\* c.parts keeps device_id, category, parameter, measure as unpacked
_callback_on_message(c, topic, payload) ==
    IF IsEmptyPayload(payload)
    THEN c                                          \* ignored empty message
    ELSE LET msg_parts == Split(topic, maxvars)
         IN  IF Len(msg_parts) > maxvars
             THEN c                                 \* ignored too long topic
             ELSE LET parts == Extend(msg_parts)
                      device_id == parts[1]
                      category == parts[2]
                      parameter == parts[3]
                      measure == parts[4]
                      c0 == [c EXCEPT !.parts = parts]
                  IN  IF category = CategoryCommand
                      THEN IF Registered(device_id)
                           THEN invoke_command(c0, device_id, payload,
                                               parameter, measure)
                           ELSE c0
                      ELSE dispatch(c0, 1, device_id, category, payload,
                                    parameter, measure)

\* The transport calls the callback with one message and gets control back
on_message(c, topic, payload) ==
    LET message == [topic |-> topic, payload |-> payload]
        entered == [c EXCEPT !.current = message,
                             !.trace = Append(@, Event("enter", message, None))]
        left == _callback_on_message(entered, topic, payload)
    IN  [left EXCEPT !.trace = Append(@, Event("return", message, None))]

\* published messages come back from the broker: the gateway subscribes to
\* the topics of all registered devices, its own included
Echo(published) ==
    [i \in 1..Len(published) |->
        [topic |-> TopicOf(published[i]), payload |-> published[i].payload,
         origin |-> "echo"]]

(***************************************************************************)
(* Gateway lifecycle: begin(), finish() and the reconnect trigger           *)
(***************************************************************************)
\* registered plugins that own a periodic trigger
TimerOwners == {DidGate, DidServer}

\* one step of begin() or finish(), as it shows to the outside
Did(c, event, device) ==
    [c EXCEPT !.trace = Append(@, Event(event, <<>>, device))]

\* device.begin() of a plugin: initial status published, own trigger started
device_begin(c, device) ==
    LET begun == publish_status(Did(c, "begin", device), device)
    IN  IF device \in TimerOwners
        THEN [begun EXCEPT !.life.timers = @ \cup {device}]
        ELSE begun

\* device.finish() of a plugin: own trigger stopped
device_finish(c, device) ==
    [Did(c, "finish", device) EXCEPT !.life.timers = @ \ {device}]

\* publish_connect(status)
publish_connect(c, status) ==
    [Did(c, "publish_" \o status, DidGate) EXCEPT
        !.pubs = Append(@, Message(DidGate, CategoryStatus, None, None,
                                   status))]

\* for device in self.devices.values(), in begin()
RECURSIVE begin_devices(_, _)
begin_devices(c, i) ==
    IF i > Len(devices)
    THEN c
    ELSE LET device == devices[i]
             started == IF device # DidGate
                        THEN device_begin(Did(c, "assign_client", device),
                                          device)
                        ELSE c
         IN  begin_devices(Did(started, "subscribe", device), i + 1)

gate_begin_timer_first(c) ==
    LET timer == [Did(c, "timer.start", DidGate) EXCEPT
                     !.life.timers = @ \cup {DidGate},
                     !.life.phase = "running"]
        setup == [Did(Did(timer, "super.begin", DidGate), "connect", DidGate)
                  EXCEPT !.connection = "CONNECTING"]
    IN  begin_devices(publish_status(publish_connect(setup, "online"),
                                     DidGate), 1)

\* device.begin of the gateway
gate_begin(c) ==
    LET setup == [Did(Did(c, "super.begin", DidGate), "connect", DidGate)
                  EXCEPT !.connection = "CONNECTING"]
        wired == begin_devices(publish_status(publish_connect(setup, "online"),
                                              DidGate), 1)
    IN  [Did(wired, "timer.start", DidGate) EXCEPT
            !.life.timers = @ \cup {DidGate},
            !.life.phase = "running"]

\* for device in self.devices.values(), in finish()
RECURSIVE finish_devices(_, _)
finish_devices(c, i) ==
    IF i > Len(devices)
    THEN c
    ELSE finish_devices(IF devices[i] = DidGate
                        THEN c
                        ELSE device_finish(c, devices[i]),
                        i + 1)

gate_finish_offline_first(c) ==
    LET offline == publish_connect(c, "offline")
        stopped == [Did(offline, "timer.stop", DidGate) EXCEPT
                       !.life.timers = @ \ {DidGate}]
        closed == [Did(finish_devices(stopped, 1), "disconnect", DidGate)
                   EXCEPT !.connection = "DISCONNECTED"]
    IN  [Did(closed, "super.finish", DidGate) EXCEPT
            !.life.phase = "finished"]

\* device.finish of the gateway
gate_finish(c) ==
    LET stopped == [Did(c, "timer.stop", DidGate) EXCEPT
                       !.life.timers = @ \ {DidGate}]
        offline == publish_connect(finish_devices(stopped, 1), "offline")
        closed == [Did(offline, "disconnect", DidGate) EXCEPT
                      !.connection = "DISCONNECTED"]
    IN  [Did(closed, "super.finish", DidGate) EXCEPT
            !.life.phase = "finished"]

\* self.mqtt_client.reconnect()
Reconnect == Call(DidGate, "reconnect", None, None, None, None)

\* a callback that returns without asking the client for anything
_callback_timer_reconnect_never(c, outcome) == c

\* device._callback_timer_reconnect; `outcome` is what reconnect() does
_callback_timer_reconnect(c, outcome) ==
    IF c.connection = "CONNECTED"
    THEN c
    ELSE LET asked == [c EXCEPT !.calls = Append(@, Reconnect)]
         IN  IF outcome = "ok"
             THEN [asked EXCEPT !.connection = "CONNECTING"]
             ELSE IF outcome = "SystemError" THEN asked      \* logged
             ELSE Raise(asked, outcome)

(***************************************************************************)
(* ThingSpeak plugin (plugins/iotgate_thingspeak.py)                        *)
(***************************************************************************)
\* `if self._timestamp:`
HasTimestamp(c) ==
    c.tspeak.timestamp # <<>> /\ c.tspeak.timestamp[1] # 0

\* elapsed = time() - self._timestamp
Elapsed(c) == c.now - c.tspeak.timestamp[1]

\* f'{field_value}' of a float with an integral value
FloatText(x) == ToString(x) \o ".0"

\* the payload built from the truthy fields of the buffer
CloudPayload(c) ==
    LET status == IF c.tspeak.status # None
                  THEN <<"status=" \o c.tspeak.status>>
                  ELSE <<>>
        field1 == IF c.tspeak.field1 # <<>> /\ c.tspeak.field1[1] # 0
                  THEN <<"field1=" \o FloatText(c.tspeak.field1[1])>>
                  ELSE <<>>
        items == status \o field1
    IN  IF items = <<>> THEN ""
        ELSE IF Len(items) = 1 THEN items[1]
        ELSE items[1] \o "&" \o items[2]

publish_buffer_passes_always(c) == c.tspeak.started

\* Device.publish_buffer: plugin started and publishing period respected
publish_buffer_passes(c) ==
    /\ c.tspeak.started
    /\ ~(HasTimestamp(c) /\ Elapsed(c) < CloudTimerMinimum)

\* Device.publish_buffer: the trigger restarted when publishing ahead of it
publish_buffer_restart(c) ==
    IF HasTimestamp(c) /\ Elapsed(c) < c.tspeak.period
    THEN [c EXCEPT !.tspeak.timer = "running"]
    ELSE c

publish_buffer_send_stamps_failure(c, payload, outcome) ==
    IF payload = "" THEN c
    ELSE IF outcome = "gaierror"
    THEN [c EXCEPT !.tspeak.timestamp = <<c.now>>, !.tspeak.status = None]
    ELSE [c EXCEPT
            !.cloud = Append(@, [time |-> c.now, payload |-> payload]),
            !.tspeak.timestamp = <<c.now>>,
            !.tspeak.status = None,
            !.pubs = Append(@, Message(DidCloud, CategoryData, "cloud",
                                       MeasureValue, payload))]

\* Device.publish_buffer: `if payload:` to the end; `outcome` is what
\* mqttpublish.single does
publish_buffer_send(c, payload, outcome) ==
    IF payload = "" THEN c
    ELSE IF outcome = "gaierror" THEN c             \* logged
    ELSE [c EXCEPT
            !.cloud = Append(@, [time |-> c.now, payload |-> payload]),
            !.tspeak.timestamp = <<c.now>>,
            !.tspeak.status = None,
            !.pubs = Append(@, Message(DidCloud, CategoryData, "cloud",
                                       MeasureValue, payload))]

\* Device.publish_buffer
publish_buffer(c, outcome) ==
    IF publish_buffer_passes(c)
    THEN LET checked == publish_buffer_restart(c)
         IN  publish_buffer_send(checked, CloudPayload(checked), outcome)
    ELSE c

\* Device.begin of ThingSpeak
cloud_begin(c) ==
    [publish_status(c, DidCloud) EXCEPT !.tspeak.started = TRUE,
                                        !.tspeak.timer = "running"]

\* Device.finish of ThingSpeak
cloud_finish(c) ==
    [c EXCEPT !.tspeak.timer = "idle", !.tspeak.finished = TRUE]

\* whether Device.process_status of ThingSpeak takes the fan's status
cloud_takes_status(value, parameter, measure, device) ==
    /\ device = DidFan
    /\ parameter = ParamFanActivity
    /\ measure = None
    /\ value \in {StatusActive, StatusIdle, StatusUnknown}

\* Device.status_fan (setter)
status_fan(c, status) == [c EXCEPT !.tspeak.status = "Fan-" \o status]

\* Device.process_status of ThingSpeak
cloud_process_status(c, value, parameter, measure, device, outcome) ==
    IF cloud_takes_status(value, parameter, measure, device)
    THEN publish_buffer(status_fan(c, value), outcome)
    ELSE c

\* Device.process_data of ThingSpeak
cloud_process_data(c, value, parameter, measure, device) ==
    IF device = DidServer /\ parameter = ParamTemperature
                          /\ measure = MeasureValue
    THEN IF IsFloat(value)
         THEN [c EXCEPT !.tspeak.field1 = <<Float(value)>>]
         ELSE c
    ELSE c

\* Device.process_own_command of ThingSpeak; reset is `self.period = None`
cloud_process_own_command(c, value, parameter, measure) ==
    IF parameter = None /\ measure = None
    THEN IF value = CommandGetStatus THEN publish_status(c, DidCloud)
         ELSE IF value = CommandReset
                 /\ ~(/\ Ordered(c.tspeak.period, CloudTimerDefault)
                      /\ c.tspeak.period = CloudTimerDefault)
         THEN LET val == Sanitize(CloudTimerDefault, CloudTimerMinimum,
                                  CloudTimerMaximum)
              IN  publish_param([c EXCEPT !.tspeak.period = val,
                                          !.tspeak.timer_period = val,
                                          !.nset = @ + 1],
                                DidCloud, ParamPeriod, MeasureValue,
                                Text(val))
         ELSE c
    ELSE c

(***************************************************************************)
(* Server plugin (plugins/iotgate_system.py)                                *)
(***************************************************************************)
\* Device.period (setter)
server_period_setter(c, raw) ==
    IF Truthy(raw) /\ ~IsFloat(raw)
    THEN c                                          \* ValueError: pass
    ELSE LET old == c.server.period
             new == IF Truthy(raw) THEN Float(raw) ELSE ServerTimerDefault
         IN  IF Ordered(old, new) /\ old = new
             THEN c                                 \* raise ValueError: pass
             ELSE LET val == Sanitize(new, ServerTimerMinimum,
                                      ServerTimerMaximum)
                  IN  publish_param([c EXCEPT !.server.period = val,
                                              !.server.timer_period = val,
                                              !.nset = @ + 1],
                                    DidServer, ParamPeriod, MeasureValue,
                                    Text(val))

\* Device.process_own_command of the server
server_process_own_command(c, value, parameter, measure) ==
    LET c1 == IF parameter = None /\ measure = None
              THEN IF value = CommandGetStatus
                   THEN publish_status(c, DidServer)
                   ELSE IF value = CommandReset
                   THEN server_period_setter(c, None)
                   ELSE c
              ELSE c
    IN  IF parameter = ParamPeriod /\ measure = MeasureValue
        THEN server_period_setter(c1, value)
        ELSE c1

(***************************************************************************)
(* Blynk plugin (plugins/iotgate_blynk.py)                                  *)
(***************************************************************************)
\* CloudConfig.HIGH and CloudConfig.LOW, as the app's button carries them
BlynkHigh == "1"
BlynkLow == "0"

\* _fan_button: the app's button state forwarded to the fan as a command
_fan_button(c, value) ==
    [c EXCEPT !.pubs =
        Append(@, Message(DidFan, CategoryCommand, None, None,
                          IF value = BlynkLow THEN CommandTurnOff
                                              ELSE CommandTurnOn))]

\* Device.process_status of Blynk. `service` is what the Blynk service does:
\* it is unreachable (_setup_cloud() is false), it takes the written value,
\* or it takes it and hands it to the handler registered for the fan's pin
blynk_process_status(c, value, parameter, measure, device, service) ==
    IF device = DidFan /\ parameter = ParamFanActivity /\ measure = None
       /\ value \in {StatusActive, StatusIdle}
       /\ service # "unreachable"
    THEN LET pin == IF value = StatusActive THEN BlynkHigh ELSE BlynkLow
             written == [c EXCEPT !.calls =
                            Append(@, Call(DidBlynk, "virtual_write", pin,
                                           None, None, None))]
         IN  IF service = "echoed" THEN _fan_button(written, pin) ELSE written
    ELSE c

(***************************************************************************)
(* The handlers as the device contract reaches them: a command goes to the *)
(* addressed device's process_own_command, a status or a data message to   *)
(* process_status or process_data of every device but its source, which is *)
(* passed as the fourth argument.                                           *)
(***************************************************************************)
\* Plugin.publish_status as the transport sees it: of the statuses a device
\* republishes, the fan's activity is the one some handler reacts to
republished(c, device) ==
    IF device = DidFan /\ c.nstatus > 0
    THEN publish_param(c, DidFan, ParamFanActivity, None, c.sfan.params.run)
    ELSE c

contract_command(c, device, value, parameter, measure) ==
    IF device = DidFan
    THEN republished(sfan_process_own_command(c, value, parameter, measure),
                     DidFan)
    ELSE IF device = DidServer
    THEN server_process_own_command(c, value, parameter, measure)
    ELSE IF device = DidCloud
    THEN cloud_process_own_command(c, value, parameter, measure)
    ELSE IF device = DidGate
    THEN gate_process_command(c, value, parameter, measure)
    ELSE c

contract_dispatch(c, source, category, value, parameter, measure, outcome, service) ==
    IF category = CategoryCommand
    THEN contract_command(c, source, value, parameter, measure)
    ELSE IF category = CategoryStatus
    THEN LET c1 == IF source # DidCloud
                   THEN cloud_process_status(c, value, parameter, measure,
                                             source, outcome)
                   ELSE c
         IN  IF source # DidBlynk
             THEN blynk_process_status(c1, value, parameter, measure, source,
                                       service)
             ELSE c1
    ELSE IF category = CategoryData
    THEN LET c1 == IF source # DidFan
                   THEN sfan_process_data(c, value, parameter, measure,
                                          source)
                   ELSE c
         IN  IF source # DidCloud
             THEN cloud_process_data(c1, value, parameter, measure, source)
             ELSE c1
    ELSE c

(***************************************************************************)
(* Inputs of the model                                                      *)
(***************************************************************************)
MaxDevices == 3                      \* longest registry considered

RegistryDids == {DidGate, DidServer, DidFan}

\* a registry: distinct dids in the order they were registered
Registries ==
    {r \in UNION {[1..n -> RegistryDids] : n \in 0..MaxDevices} :
        \A i, j \in 1..Len(r) : i # j => r[i] # r[j]}

TopicDids == RegistryDids \cup {"ghost"}

TopicTails ==
    {<<>>, <<ParamTemperature>>, <<ParamTemperature, MeasurePercentage>>,
     <<ParamPeriod, MeasureValue>>,
     <<ParamTemperature, MeasurePercentage, "extra">>,
     <<ParamTemperature, MeasurePercentage, "extra", "more">>}

Topics ==
    {Join(<<d, cat>> \o t) :
        d \in TopicDids,
        cat \in {CategoryCommand, CategoryStatus, CategoryData},
        t \in TopicTails}
    \cup {Join(<<DidFan>>), Join(<<"ghost", "event", "any", "thing">>)}

MessagePayloads == {None, "", CommandReset, CommandGetStatus, "95"}

CommandPayloads ==
    {None, "", CommandGetStatus, CommandReset, CommandTurnOn, CommandTurnOff,
     CommandToggle, "-85", "45", "60", "65", "85", "90", "99", "abc"}

CommandAddresses ==
    {<<None, None>>, <<ParamPercentageOn, MeasureValue>>,
     <<ParamPercentageOff, MeasureValue>>, <<ParamPercentageOn, None>>,
     <<None, MeasureValue>>, <<ParamPercentageOff, MeasureDefault>>}

DataPayloads == {"55", "65", "75", "85", "95", "abc"}

DataAddresses ==
    {<<ParamTemperature, MeasurePercentage>>,
     <<ParamTemperature, MeasureValue>>}

DataSources == {DidServer, DidFan}

\* mqttpublish.single succeeds or the host name does not resolve
CloudOutcomes == {"ok", "gaierror"}

CloudStatusPayloads == {StatusActive, StatusIdle, "abc"}

CloudStatusAddresses == {<<ParamFanActivity, None>>, <<ParamPeriod, None>>}

CloudDataPayloads == {"45", "0", "abc"}

TimeStep == 5                        \* seconds between two readings of time()
MaxTime == 35                        \* last reading of time() considered
MaxRaceTime == 20                    \* the same, with threads interleaved

\* payloads and addresses of the commands that write thresholds and periods
SettingPayloads == {CommandReset, "nan", "0", "45", "99", "abc"}

SettingAddresses ==
    {<<None, None>>, <<ParamPeriod, MeasureValue>>,
     <<ParamPercentageOn, MeasureValue>>, <<ParamPercentageOff, MeasureValue>>}

\* what the Blynk service does with a written pin value
BlynkOutcomes == {"unreachable", "written", "echoed"}

MaxCascadeTime == 20                 \* last instant of the clock in a cascade

MaxCascade == 6                      \* messages one injected message may cause

\* messages an external client injects
CascadeMessages ==
    {[topic |-> Join(<<DidFan, CategoryCommand>>), payload |-> p] :
        p \in {CommandTurnOn, CommandTurnOff, CommandToggle,
               CommandGetStatus}}
    \cup {[topic |-> Join(<<DidFan, CategoryStatus, ParamFanActivity>>),
           payload |-> p] : p \in {StatusActive, StatusIdle}}
    \cup {[topic |-> Join(<<DidServer, CategoryData, ParamTemperature,
                           MeasurePercentage>>),
           payload |-> p] : p \in {"95", "55"}}
    \cup {[topic |-> Join(<<DidGate, CategoryCommand, ParamPeriod,
                           MeasureValue>>),
           payload |-> "95"]}

\* reconnect() succeeds or raises
ReconnectOutcomes == {"ok", "SystemError", "OSError"}

GateCommandPayloads == {CommandGetStatus, CommandReset, "95", "abc"}

GateCommandAddresses ==
    {<<None, None>>, <<ParamPeriod, MeasureValue>>, <<ParamPeriod, None>>}

\* STATUS and DATA topics, and the devices whose handler may fault
BroadcastTopics ==
    {Join(<<d, cat>> \o t) :
        d \in TopicDids, cat \in {CategoryStatus, CategoryData},
        t \in {tail \in TopicTails : Len(tail) <= 2}}

FaultyHandlers == {{}} \cup {{d} : d \in RegistryDids}

ConnectionStatuses == {"DISCONNECTED", "CONNECTING", "CONNECTED"}

ResultCodes == {0, 5}                \* rc of a connection request; 0 is success

MaxMessages == 3                     \* messages the broker sends to the gateway

\* messages the broker sends on its own
BrokerMessages ==
    {[topic |-> Join(<<DidGate, CategoryCommand, ParamPeriod, MeasureValue>>),
      payload |-> "95"],
     [topic |-> Join(<<DidGate, CategoryCommand>>), payload |-> CommandReset],
     [topic |-> Join(<<DidGate, CategoryCommand>>),
      payload |-> CommandGetStatus],
     [topic |-> Join(<<"ghost", CategoryStatus>>), payload |-> "95"]}

(***************************************************************************)
(* Observer of the monitored sequence 95, 85, 75, 65, 55 processed from    *)
(* IDLE with percon 90 and percoff 60: k values of it have been processed, *)
(* tr lists the transitions they caused.                                    *)
(***************************************************************************)
HystSeq == <<95, 85, 75, 65, 55>>

HystNone == [k |-> 0, tr |-> <<>>]

HystStart(f) ==
    /\ f.pin = "LOW"
    /\ f.params.percon_value = PercentageOnDefault
    /\ f.params.percoff_value = PercentageOffDefault

HystNext(h, before, after, m) ==
    LET moved(k) == IF after.pin # before.pin
                    THEN <<[at |-> k,
                            to |-> IF after.pin = "HIGH" THEN StatusActive
                                                         ELSE StatusIdle]>>
                    ELSE <<>>
    IN  IF h.k \in 1..(Len(HystSeq) - 1) /\ m = HystSeq[h.k + 1]
        THEN [k |-> h.k + 1, tr |-> h.tr \o moved(h.k + 1)]
        ELSE IF m = HystSeq[1] /\ HystStart(before)
        THEN [k |-> 1, tr |-> moved(1)]
        ELSE HystNone

(***************************************************************************)
(* State machine                                                            *)
(***************************************************************************)
InitObjects ==
    /\ sfan = [pin |-> "LOW", percentage |-> <<>>,
               params |-> [run |-> StatusIdle,
                           percon_value |-> PercentageOnDefault,
                           percoff_value |-> PercentageOffDefault,
                           percoff_default |-> PercentageOffDefault]]
    /\ iotgate = [period |-> TimerDefault, timer_period |-> TimerDefault,
                  params |-> [period_default |-> TimerDefault]]
    /\ op = [name |-> "__init__"]
    /\ calls = <<>>
    /\ pubs = <<>>
    /\ nset = 0
    /\ nstatus = 0
    /\ fault = ""
    /\ hyst = HystNone
    /\ inbox = <<>>
    /\ delivered = <<>>
    /\ history = <<>>
    /\ life = [phase |-> "constructed", timers |-> {}]
    /\ tspeak = [started |-> FALSE, finished |-> FALSE, status |-> None,
                 field1 |-> <<>>, timestamp |-> <<>>,
                 period |-> CloudTimerDefault,
                 timer_period |-> CloudTimerDefault, timer |-> "idle"]
    /\ server = [period |-> ServerTimerDefault,
                 timer_period |-> ServerTimerDefault]
    /\ now = TimeStep
    /\ cloud = <<>>
    /\ pc = [thread \in Threads |-> [at |-> "idle", payload |-> ""]]

Before == [sfan |-> sfan, iotgate |-> iotgate]

\* lifecycle, ThingSpeak plugin and clock, which the message handlers of the
\* gateway and of the fan do not touch
others == <<life, tspeak, now, cloud, server, pc>>

\* the state after a handler ended in context c
Commit(c) ==
    /\ sfan' = c.sfan
    /\ iotgate' = c.iotgate
    /\ calls' = c.calls
    /\ pubs' = c.pubs
    /\ nset' = c.nset
    /\ nstatus' = c.nstatus
    /\ fault' = c.fault
    /\ UNCHANGED devices

\* The broker client hands one message to the gateway
CallbackOnMessage ==
    \E topic \in Topics, payload \in MessagePayloads :
        LET c == _callback_on_message(Context, topic, payload)
        IN  /\ Commit(c)
            /\ op' = [name |-> "_callback_on_message", topic |-> topic,
                      payload |-> payload, parts |-> c.parts, pre |-> Before,
                      faulty |-> {}, connection |-> connection]
            /\ hyst' = HystNone
            /\ UNCHANGED <<connection, inbox, delivered, history, others>>

\* The same while the handler of the devices in `faulty` meets a fault
CallbackOnMessageFaulty ==
    \E topic \in BroadcastTopics, faulty \in FaultyHandlers :
        LET c == _callback_on_message([Context EXCEPT !.faulty = faulty],
                                      topic, "95")
        IN  /\ Commit(c)
            /\ op' = [name |-> "_callback_on_message", topic |-> topic,
                      payload |-> "95", parts |-> c.parts, pre |-> Before,
                      faulty |-> faulty, connection |-> connection]
            /\ hyst' = HystNone
            /\ UNCHANGED <<connection, inbox, delivered, history, others>>

\* begin() or the reconnect timer asks the broker for a connection
MqttConnect ==
    /\ connection = "DISCONNECTED"
    /\ connection' = "CONNECTING"
    /\ UNCHANGED <<devices, sfan, iotgate, op, calls, pubs, nset, nstatus,
                   fault, hyst, inbox, delivered, history, others>>

\* The broker answers the connection request with result code rc
CallbackOnConnect ==
    \E rc \in ResultCodes :
        /\ connection = "CONNECTING"
        /\ connection' = IF rc = 0 THEN "CONNECTED" ELSE "DISCONNECTED"
        /\ UNCHANGED <<devices, sfan, iotgate, op, calls, pubs, nset,
                       nstatus, fault, hyst, inbox, delivered, history,
                       others>>

\* The client lost or closed the connection
CallbackOnDisconnect ==
    /\ connection = "CONNECTED"
    /\ connection' = "DISCONNECTED"
    /\ UNCHANGED <<devices, sfan, iotgate, op, calls, pubs, nset, nstatus,
                   fault, hyst, inbox, delivered, history, others>>

\* The broker sends a message to the gateway
BrokerArrive ==
    \E message \in BrokerMessages :
        /\ Len(inbox) + Len(delivered) < MaxMessages
        /\ inbox' = Append(inbox, [topic |-> message.topic,
                                   payload |-> message.payload,
                                   origin |-> "broker"])
        /\ UNCHANGED <<devices, sfan, iotgate, op, calls, pubs, nset,
                       nstatus, fault, hyst, connection, delivered, history,
                       others>>

\* The transport hands the oldest pending message to the gateway
TransportDeliver ==
    /\ inbox # <<>>
    /\ LET message == Head(inbox)
           c == on_message(Context, message.topic, message.payload)
       IN  /\ Commit(c)
           /\ op' = [name |-> "_callback_on_message",
                     topic |-> message.topic, payload |-> message.payload,
                     parts |-> c.parts, pre |-> Before, faulty |-> {},
                     connection |-> connection]
           /\ inbox' = Tail(inbox) \o Echo(c.pubs)
           /\ delivered' = Append(delivered, message)
           /\ history' = history \o c.trace
    /\ hyst' = HystNone
    /\ UNCHANGED <<connection, others>>

\* A command is handed to the fan
SfanProcessOwnCommand ==
    \E value \in CommandPayloads, address \in CommandAddresses :
        /\ Commit(sfan_process_own_command(Context, value, address[1],
                                           address[2]))
        /\ op' = [name |-> "process_own_command", value |-> value,
                  parameter |-> address[1], measure |-> address[2],
                  pre |-> Before]
        /\ hyst' = HystNone
        /\ UNCHANGED <<connection, inbox, delivered, history, others>>

\* A data message of another device is handed to the fan
SfanProcessData ==
    \E value \in DataPayloads, address \in DataAddresses,
       device \in DataSources :
        /\ Commit(sfan_process_data(Context, value, address[1], address[2],
                                    device))
        /\ op' = [name |-> "process_data", value |-> value,
                  parameter |-> address[1], measure |-> address[2],
                  device |-> device, pre |-> Before]
        /\ hyst' = IF /\ device = DidServer
                      /\ address = <<ParamTemperature, MeasurePercentage>>
                      /\ IsFloat(value)
                   THEN HystNext(hyst, sfan, sfan', Float(value))
                   ELSE HystNone
        /\ UNCHANGED <<connection, inbox, delivered, history, others>>

\* The gateway with any registry, connected, driven by inbound messages
Init == devices \in Registries /\ InitObjects /\ connection = "CONNECTED"

Next == CallbackOnMessage

Spec == Init /\ [][Next]_vars

\* The fan plugin driven through its handlers
InitFan ==
    /\ devices = <<DidGate, DidServer, DidFan>>
    /\ InitObjects
    /\ connection = "CONNECTED"

NextFan == SfanProcessOwnCommand \/ SfanProcessData

SpecFan == InitFan /\ [][NextFan]_vars

\* A command is handed to the gateway
GateProcessCommand ==
    \E value \in GateCommandPayloads, address \in GateCommandAddresses :
        /\ Commit(gate_process_command(Context, value, address[1],
                                       address[2]))
        /\ op' = [name |-> "process_command", value |-> value,
                  parameter |-> address[1], measure |-> address[2],
                  pre |-> Before]
        /\ hyst' = HystNone
        /\ UNCHANGED <<connection, inbox, delivered, history, others>>

\* The fan and the gateway plugins driven through their handlers
InitCommand == InitFan

NextCommand ==
    SfanProcessOwnCommand \/ SfanProcessData \/ GateProcessCommand

SpecCommand == InitCommand /\ [][NextCommand]_vars

\* the state after a step of the gateway's lifecycle ended in context c
CommitLife(c) ==
    /\ Commit(c)
    /\ connection' = c.connection
    /\ life' = c.life
    /\ history' = history \o c.trace
    /\ hyst' = HystNone
    /\ UNCHANGED <<inbox, delivered, tspeak, now, cloud, server, pc>>

\* The main program starts the gateway
GateBegin ==
    /\ life.phase = "constructed"
    /\ CommitLife(gate_begin(Context))
    /\ op' = [name |-> "begin", pre |-> Before]

\* The main program stops the gateway
GateFinish ==
    /\ life.phase = "running"
    /\ CommitLife(gate_finish(Context))
    /\ op' = [name |-> "finish", pre |-> Before]

\* The gateway's trigger fires
CallbackTimerReconnect ==
    \E outcome \in ReconnectOutcomes :
        /\ DidGate \in life.timers
        /\ CommitLife(_callback_timer_reconnect(Context, outcome))
        /\ op' = [name |-> "_callback_timer_reconnect",
                  outcome |-> outcome, pre |-> Before,
                  connection |-> connection]

\* The gateway from construction to shutdown
InitLife ==
    /\ devices \in Registries
    /\ InitObjects
    /\ connection = "DISCONNECTED"

NextLife ==
    GateBegin \/ GateFinish \/ CallbackTimerReconnect
    \/ CallbackOnConnect \/ CallbackOnDisconnect

SpecLife == InitLife /\ [][NextLife]_vars

\* the trigger fires and the transport accepts the reconnect
ReconnectAccepted ==
    /\ DidGate \in life.timers
    /\ connection # "CONNECTED"
    /\ CommitLife(_callback_timer_reconnect(Context, "ok"))
    /\ op' = [name |-> "_callback_timer_reconnect", outcome |-> "ok",
              pre |-> Before, connection |-> connection]

\* the broker grants the connection request
ConnectAccepted ==
    /\ connection = "CONNECTING"
    /\ connection' = "CONNECTED"
    /\ UNCHANGED <<devices, sfan, iotgate, op, calls, pubs, nset, nstatus,
                   fault, hyst, inbox, delivered, history, others>>

\* The gateway's lifecycle with a trigger that keeps firing while it is
\* started, and a transport that does not refuse for ever
FairLife ==
    /\ SpecLife
    /\ WF_vars(CallbackTimerReconnect)
    /\ SF_vars(ReconnectAccepted)
    /\ SF_vars(ConnectAccepted)

\* the state after a step of the ThingSpeak plugin ended in context c
CommitCloud(c) ==
    /\ Commit(c)
    /\ tspeak' = c.tspeak
    /\ cloud' = c.cloud
    /\ hyst' = HystNone
    /\ UNCHANGED <<connection, inbox, delivered, history, life, now, server>>

\* The gateway starts the ThingSpeak plugin
TsBegin ==
    /\ ~tspeak.started
    /\ CommitCloud(cloud_begin(Context))
    /\ op' = [name |-> "begin", called |-> FALSE]
    /\ UNCHANGED pc

\* The gateway stops the ThingSpeak plugin
TsFinish ==
    /\ tspeak.started /\ ~tspeak.finished
    /\ CommitCloud(cloud_finish(Context))
    /\ op' = [name |-> "finish", called |-> FALSE]
    /\ UNCHANGED pc

\* The plugin's trigger fires
TsTimerFires ==
    \E outcome \in CloudOutcomes :
        /\ tspeak.timer = "running"
        /\ CommitCloud(publish_buffer(Context, outcome))
        /\ op' = [name |-> "_callback_timer_publish", called |-> TRUE,
                  at |-> tspeak, cloud |-> cloud, outcome |-> outcome]
        /\ UNCHANGED pc

\* A status message of another device is handed to the plugin
TsProcessStatus ==
    \E value \in CloudStatusPayloads, address \in CloudStatusAddresses,
       device \in {DidFan, DidServer}, outcome \in CloudOutcomes :
        LET taken == cloud_takes_status(value, address[1], address[2], device)
        IN  /\ CommitCloud(cloud_process_status(Context, value, address[1],
                                                address[2], device, outcome))
            /\ op' = [name |-> "process_status", called |-> taken,
                      at |-> IF taken THEN status_fan(Context, value).tspeak
                                      ELSE tspeak,
                      cloud |-> cloud, outcome |-> outcome]
            /\ UNCHANGED pc

\* A data message of another device is handed to the plugin
TsProcessData ==
    \E value \in CloudDataPayloads, address \in DataAddresses,
       device \in {DidFan, DidServer} :
        /\ pc["mqtt"].at = "idle"
        /\ CommitCloud(cloud_process_data(Context, value, address[1],
                                          address[2], device))
        /\ op' = [name |-> "process_data", called |-> FALSE,
                  at |-> tspeak, cloud |-> cloud, value |-> value]
        /\ UNCHANGED pc

\* The wall clock advances
Tick ==
    /\ now + TimeStep <= MaxTime
    /\ now' = now + TimeStep
    /\ op' = [name |-> "tick", called |-> FALSE]
    /\ UNCHANGED <<devices, sfan, iotgate, calls, pubs, nset, nstatus, fault,
                   hyst, connection, inbox, delivered, history, life, tspeak,
                   cloud, server, pc>>

\* The wall clock advances while threads are inside publish_buffer
RaceTick ==
    /\ now + TimeStep <= MaxRaceTime
    /\ now' = now + TimeStep
    /\ op' = [name |-> "tick", called |-> FALSE]
    /\ UNCHANGED <<devices, sfan, iotgate, calls, pubs, nset, nstatus, fault,
                   hyst, connection, inbox, delivered, history, life, tspeak,
                   cloud, server, pc>>

\* The ThingSpeak plugin, one handler or callback at a time
InitCloud ==
    /\ devices = <<DidGate, DidServer, DidFan>>
    /\ InitObjects
    /\ connection = "CONNECTED"

NextCloud ==
    TsBegin \/ TsFinish \/ TsTimerFires \/ TsProcessStatus \/ TsProcessData
    \/ Tick

SpecCloud == InitCloud /\ [][NextCloud]_vars

\* a thread enters publish_buffer: the trigger's thread from the callback,
\* the broker client's thread from process_status with a status of the fan
RaceCheck(thread) ==
    \E value \in {StatusActive, StatusIdle} :
        LET c == IF thread = "mqtt" THEN status_fan(Context, value)
                                    ELSE Context
            passes == publish_buffer_passes(c)
        IN  /\ pc[thread].at = "idle"
            /\ thread = "timer" => tspeak.timer = "running"
            /\ CommitCloud(IF passes THEN publish_buffer_restart(c) ELSE c)
            /\ pc' = [pc EXCEPT ![thread].at =
                                    IF passes THEN "checked" ELSE "idle"]
            /\ op' = [name |-> "publish_buffer", called |-> TRUE,
                      thread |-> thread]

\* the thread builds the payload from the buffer
RaceBuild(thread) ==
    /\ pc[thread].at = "checked"
    /\ pc' = [pc EXCEPT ![thread] =
                  IF CloudPayload(Context) = ""
                  THEN [at |-> "idle", payload |-> ""]
                  ELSE [at |-> "built", payload |-> CloudPayload(Context)]]
    /\ CommitCloud(Context)
    /\ op' = [name |-> "publish_buffer", called |-> TRUE, thread |-> thread]

\* the thread sends the payload and records the time
RaceSend(thread) ==
    \E outcome \in CloudOutcomes :
        /\ pc[thread].at = "built"
        /\ CommitCloud(publish_buffer_send(Context, pc[thread].payload,
                                           outcome))
        /\ pc' = [pc EXCEPT ![thread] = [at |-> "idle", payload |-> ""]]
        /\ op' = [name |-> "publish_buffer", called |-> TRUE,
                  thread |-> thread]

\* The ThingSpeak plugin with its trigger and the broker client in threads
InitRace == InitCloud

NextRace ==
    \/ TsBegin
    \/ TsProcessData
    \/ RaceTick
    \/ \E thread \in Threads :
          RaceCheck(thread) \/ RaceBuild(thread) \/ RaceSend(thread)

SpecRace == InitRace /\ [][NextRace]_vars

\* the state after a command handler of any plugin ended in context c
CommitSetting(c, device, value, address) ==
    /\ Commit(c)
    /\ server' = c.server
    /\ tspeak' = c.tspeak
    /\ op' = [name |-> "setting", device |-> device, value |-> value,
              parameter |-> address[1], measure |-> address[2],
              pre |-> Before]
    /\ hyst' = HystNone
    /\ UNCHANGED <<connection, inbox, delivered, history, life, now, cloud,
                   pc>>

\* A threshold or generic command is handed to the fan
FanSetting ==
    \E value \in SettingPayloads, address \in SettingAddresses :
        CommitSetting(sfan_process_own_command(Context, value, address[1],
                                               address[2]),
                      DidFan, value, address)

\* A period or generic command is handed to the gateway
GateSetting ==
    \E value \in SettingPayloads, address \in SettingAddresses :
        CommitSetting(gate_process_command(Context, value, address[1],
                                           address[2]),
                      DidGate, value, address)

\* A period or generic command is handed to the server
ServerSetting ==
    \E value \in SettingPayloads, address \in SettingAddresses :
        CommitSetting(server_process_own_command(Context, value, address[1],
                                                 address[2]),
                      DidServer, value, address)

\* A period or generic command is handed to ThingSpeak
CloudSetting ==
    \E value \in SettingPayloads, address \in SettingAddresses :
        CommitSetting(cloud_process_own_command(Context, value, address[1],
                                                address[2]),
                      DidCloud, value, address)

\* The plugins driven through the commands that write their settings
InitSettings == InitFan

NextSettings == FanSetting \/ GateSetting \/ ServerSetting \/ CloudSetting

SpecSettings == InitSettings /\ [][NextSettings]_vars

\* An external client publishes one message while nothing is in flight
Inject ==
    \E message \in CascadeMessages :
        /\ inbox = <<>>
        /\ inbox' = <<[topic |-> message.topic, payload |-> message.payload,
                       origin |-> "client"]>>
        /\ delivered' = <<>>
        /\ history' = <<>>
        /\ cloud' = <<>>
        /\ op' = [name |-> "inject"]
        /\ UNCHANGED <<devices, sfan, iotgate, calls, pubs, nset, nstatus,
                       fault, hyst, connection, life, tspeak, now, server, pc>>

\* The oldest pending message reaches the handlers the contract names
ContractDeliver ==
    \E outcome \in CloudOutcomes, service \in BlynkOutcomes :
        /\ inbox # <<>>
        /\ LET message == Head(inbox)
               parts == Extend(Split(message.topic, maxvars))
               c == contract_dispatch(Context, parts[1], parts[2],
                                      message.payload, parts[3], parts[4],
                                      outcome, service)
           IN  /\ Commit(c)
               /\ tspeak' = c.tspeak
               /\ cloud' = c.cloud
               /\ server' = c.server
               /\ op' = [name |-> "contract_dispatch",
                         topic |-> message.topic,
                         payload |-> message.payload]
               /\ inbox' = Tail(inbox) \o Echo(c.pubs)
               /\ delivered' = Append(delivered, message)
        /\ hyst' = HystNone
        /\ UNCHANGED <<connection, history, life, now, pc>>

\* One injected message and what the devices publish in response while
\* time passes, the periodic triggers idle
InitCascade == InitFan

\* The wall clock advances while messages are in flight
CascadeTick ==
    /\ now + TimeStep <= MaxCascadeTime
    /\ now' = now + TimeStep
    /\ op' = [name |-> "tick", called |-> FALSE]
    /\ UNCHANGED <<devices, sfan, iotgate, calls, pubs, nset, nstatus, fault,
                   hyst, connection, inbox, delivered, history, life, tspeak,
                   cloud, server, pc>>

NextCascade ==
    Inject \/ TransportDeliver \/ ContractDeliver \/ TsBegin \/ CascadeTick

SpecCascade == InitCascade /\ [][NextCascade]_vars

\* The gateway dispatching broadcasts while handlers may fault
InitFault == devices \in Registries /\ InitObjects /\ connection = "CONNECTED"

NextFault == CallbackOnMessageFaulty

SpecFault == InitFault /\ [][NextFault]_vars

\* The gateway from its construction on, connecting and disconnecting
InitConn ==
    /\ devices = <<DidGate, DidServer, DidFan>>
    /\ InitObjects
    /\ connection = "DISCONNECTED"

NextConn ==
    MqttConnect \/ CallbackOnConnect \/ CallbackOnDisconnect
    \/ CallbackOnMessage

SpecConn == InitConn /\ [][NextConn]_vars

\* The gateway fed by the transport's queue of inbound messages
InitOrder ==
    /\ devices = <<DidGate, DidServer, DidFan>>
    /\ InitObjects
    /\ connection = "CONNECTED"

NextOrder == BrokerArrive \/ TransportDeliver

SpecOrder == InitOrder /\ [][NextOrder]_vars

(***************************************************************************)
(* Vocabulary of the properties                                             *)
(***************************************************************************)
IsMessage == op.name = "_callback_on_message"

\* parameter and measure segments of a well-formed topic
ValidTails == {t \in TopicTails : Len(t) <= 2}

Segment(tail, i) == IF i <= Len(tail) THEN tail[i] ELSE None

\* the last inbound message has this address (encoded, not parsed)
Addressed(did, category, tail) ==
    IsMessage /\ op.topic = Join(<<did, category>> \o tail)

\* the name under which a plugin class defines its own-command handler
OwnCommandHandler(device) ==
    IF "process_own_command" \in ClassDefines(device)
    THEN "process_own_command"
    ELSE "process_command"

BroadcastHandler(category) ==
    IF category = CategoryStatus THEN "process_status" ELSE "process_data"

\* how many invocations in the last dispatch satisfy P
CountCalls(P(_)) == Cardinality({i \in 1..Len(calls) : P(calls[i])})

ActivityOf(pin) == IF pin = "HIGH" THEN StatusActive ELSE StatusIdle

\* the fan evaluated the monitored value Float(op.value)
Evaluated ==
    /\ op.name = "process_data"
    /\ op.device = DidServer
    /\ op.parameter = ParamTemperature
    /\ op.measure = MeasurePercentage
    /\ IsFloat(op.value)

\* a command wrote a threshold with the raw payload op.value
ThresholdWrite(parameter) ==
    /\ op.name = "process_own_command"
    /\ op.parameter = parameter
    /\ op.measure = MeasureValue

\* clamp to [minimum, maximum]
Clamp(v, minimum, maximum) ==
    IF v < minimum THEN minimum ELSE IF v > maximum THEN maximum ELSE v

RunPublications ==
    {i \in 1..Len(pubs) : pubs[i].parameter = ParamFanActivity}

(***************************************************************************)
(* C1  Command addressing: a COMMAND message with a non-empty payload and  *)
(* a valid topic whose did is the registered device X makes the router     *)
(* invoke X's own-command handler exactly once with (payload, parameter,   *)
(* measure), and nothing else.                                              *)
(***************************************************************************)
C1_CommandAddressing ==
    \A X \in RegistryDids, tail \in ValidTails :
        (/\ Addressed(X, CategoryCommand, tail)
         /\ Truthy(op.payload)
         /\ Registered(X))
        => calls = <<Call(X, OwnCommandHandler(X), op.payload,
                          Segment(tail, 1), Segment(tail, 2), None)>>

(***************************************************************************)
(* C2  Broadcast exclusion: a STATUS or DATA message whose did is the      *)
(* registered device Y never makes the router invoke process_status or     *)
(* process_data on Y, whatever the registry holds.                          *)
(***************************************************************************)
C2_BroadcastExclusion ==
    \A Y \in RegistryDids, tail \in TopicTails,
       category \in {CategoryStatus, CategoryData} :
        (Addressed(Y, category, tail) /\ Registered(Y))
        => \A i \in 1..Len(calls) :
              ~(/\ calls[i].device = Y
                /\ calls[i].method \in {"process_status", "process_data"})

\* a message of a registered device was broadcast to some other device
C2_Witness ==
    \E Y \in RegistryDids, tail \in ValidTails,
       category \in {CategoryStatus, CategoryData} :
        /\ Addressed(Y, category, tail)
        /\ Registered(Y)
        /\ Len(devices) >= 2
        /\ calls # <<>>

(***************************************************************************)
(* C3  Broadcast: a STATUS (DATA) message with a non-empty payload and a   *)
(* valid topic makes the router invoke process_status (process_data)       *)
(* exactly once, with the message's payload, parameter and measure, on     *)
(* every registered device other than the message's did, and never the     *)
(* handler of the other category.                                           *)
(***************************************************************************)
C3_BroadcastToAllOthers ==
    \A d \in TopicDids, tail \in ValidTails,
       category \in {CategoryStatus, CategoryData} :
        (Addressed(d, category, tail) /\ Truthy(op.payload))
        => /\ \A r \in RegistryDids :
                (Registered(r) /\ r # d)
                => CountCalls(LAMBDA call :
                       /\ call.device = r
                       /\ call.method = BroadcastHandler(category)
                       /\ call.value = op.payload
                       /\ call.parameter = Segment(tail, 1)
                       /\ call.measure = Segment(tail, 2)) = 1
           /\ \A i \in 1..Len(calls) :
                calls[i].method = BroadcastHandler(category)

(***************************************************************************)
(* C4  Source attribution: in every process_status/process_data            *)
(* invocation made for a message whose did is registered, the fourth       *)
(* argument is the device whose did is the message's did.                   *)
(***************************************************************************)
C4_SourceIsFourthArgument ==
    \A d \in RegistryDids, tail \in ValidTails,
       category \in {CategoryStatus, CategoryData} :
        (Addressed(d, category, tail) /\ Registered(d))
        => \A i \in 1..Len(calls) :
              calls[i].method \in {"process_status", "process_data"}
              => calls[i].source = d

(***************************************************************************)
(* C5  End to end: with server and sfan registered and the fan IDLE, a     *)
(* DATA temperature-percentage message of the server at or above the on    *)
(* threshold makes the router invoke sfan.process_data exactly once with   *)
(* that payload, parameter and measure; the fan becomes ACTIVE and         *)
(* publishes its status parameter run with payload active.                  *)
(***************************************************************************)
C5_EndToEnd ==
    (/\ Addressed(DidServer, CategoryData,
                  <<ParamTemperature, MeasurePercentage>>)
     /\ Registered(DidServer)
     /\ Registered(DidFan)
     /\ op.pre.sfan.pin = "LOW"
     /\ IsFloat(op.payload)
     /\ Float(op.payload) >= op.pre.sfan.params.percon_value)
    => /\ CountCalls(LAMBDA call :
            /\ call.device = DidFan
            /\ call.method = "process_data"
            /\ call.value = op.payload
            /\ call.parameter = ParamTemperature
            /\ call.measure = MeasurePercentage) = 1
       /\ sfan.pin = "HIGH"
       /\ \E i \in 1..Len(pubs) :
            pubs[i] = Message(DidFan, CategoryStatus, ParamFanActivity, None,
                              StatusActive)

(***************************************************************************)
(* C6  evaluate(m): from IDLE the fan turns ACTIVE iff m >= on threshold,  *)
(* from ACTIVE it turns IDLE iff m <= off threshold (the thresholds being  *)
(* the current values of percon and percoff); otherwise state and pin are  *)
(* left as they were.                                                       *)
(***************************************************************************)
C6_Evaluate ==
    Evaluated
    => LET m == Float(op.value)
           before == op.pre.sfan
       IN  /\ before.pin = "LOW"
              => (sfan.pin = "HIGH" <=> m >= before.params.percon_value)
           /\ before.pin = "HIGH"
              => (sfan.pin = "LOW" <=> m <= before.params.percoff_value)
           /\ sfan.pin = before.pin => sfan.params = before.params

\* The same with the off threshold read as fan_process reads it
EvaluateAgainstGetters ==
    Evaluated
    => LET m == Float(op.value)
           before == op.pre.sfan
       IN  /\ before.pin = "LOW"
              => (sfan.pin = "HIGH" <=> m >= before.params.percon_value)
           /\ before.pin = "HIGH"
              => (sfan.pin = "LOW" <=> m <= before.params.percoff_default)
           /\ sfan.pin = before.pin => sfan.params = before.params

(***************************************************************************)
(* C7  Hysteresis: with percoff 60, percon 90 and the fan IDLE, the        *)
(* monitored values 95, 85, 75, 65, 55 cause exactly one transition to     *)
(* ACTIVE (at 95) and one to IDLE (at 55); and no monitored value strictly *)
(* between the off and the on threshold ever changes the fan's state.      *)
(***************************************************************************)
HysteresisScenario ==
    /\ hyst.k \in 1..4
       => hyst.tr = <<[at |-> 1, to |-> StatusActive]>>
    /\ hyst.k = 5
       => hyst.tr = <<[at |-> 1, to |-> StatusActive],
                      [at |-> 5, to |-> StatusIdle]>>

C7_Hysteresis ==
    /\ HysteresisScenario
    /\ (/\ Evaluated
        /\ Float(op.value) > op.pre.sfan.params.percoff_value
        /\ Float(op.value) < op.pre.sfan.params.percon_value)
       => sfan.pin = op.pre.sfan.pin

(***************************************************************************)
(* C8  Every transition caused by evaluate stores the new activity in the  *)
(* ACTIVITY parameter and publishes it exactly once; an evaluate that      *)
(* causes no transition stores and publishes nothing.                       *)
(***************************************************************************)
C8_TransitionPublishesOnce ==
    /\ op.name = "process_data"
       => IF sfan.pin # op.pre.sfan.pin
          THEN /\ nset = 1
               /\ sfan.params.run = ActivityOf(sfan.pin)
               /\ pubs = <<Message(DidFan, CategoryStatus, ParamFanActivity,
                                   None, ActivityOf(sfan.pin))>>
          ELSE /\ nset = 0
               /\ pubs = <<>>
               /\ sfan.params = op.pre.sfan.params
    /\ (ThresholdWrite(ParamPercentageOn) \/ ThresholdWrite(ParamPercentageOff))
       => IF sfan.pin # op.pre.sfan.pin
          THEN /\ nset = 2
               /\ sfan.params.run = ActivityOf(sfan.pin)
               /\ Cardinality(RunPublications) = 1
               /\ pubs[Len(pubs)].payload = ActivityOf(sfan.pin)
          ELSE /\ nset <= 1
               /\ RunPublications = {}
               /\ sfan.params.run = op.pre.sfan.params.run

\* a monitored value made the fan change its state
C8_Witness ==
    /\ Evaluated
    /\ sfan.pin # op.pre.sfan.pin
    /\ pubs # <<>>

(***************************************************************************)
(* C9  Threshold clamping: a parseable raw value v written to percon       *)
(* ([80, 95]) or percoff ([50, 75]) leaves the stored current value at the *)
(* minimum if v is below it, at the maximum if v is above it, and at v     *)
(* otherwise.                                                               *)
(***************************************************************************)
C9_ThresholdClamping ==
    /\ (ThresholdWrite(ParamPercentageOn) /\ IsFloat(op.value))
       => sfan.params.percon_value =
            Clamp(Float(op.value), PercentageOnMinimum, PercentageOnMaximum)
    /\ (ThresholdWrite(ParamPercentageOff) /\ IsFloat(op.value))
       => sfan.params.percoff_value =
            Clamp(Float(op.value), PercentageOffMinimum, PercentageOffMaximum)

(***************************************************************************)
(* C10  A threshold write whose clamped value equals the threshold's       *)
(* current value is a no-op: nothing is stored, nothing is published and   *)
(* the fan is not re-evaluated, also for a raw value that differs from the *)
(* current value but clamps to it.                                          *)
(***************************************************************************)
C10_UnchangedWriteIsNoOp ==
    /\ (/\ ThresholdWrite(ParamPercentageOn)
        /\ IsFloat(op.value)
        /\ Clamp(Float(op.value), PercentageOnMinimum, PercentageOnMaximum)
             = op.pre.sfan.params.percon_value)
       => (nset = 0 /\ pubs = <<>> /\ fault = "" /\ sfan = op.pre.sfan)
    /\ (/\ ThresholdWrite(ParamPercentageOff)
        /\ IsFloat(op.value)
        /\ Clamp(Float(op.value), PercentageOffMinimum, PercentageOffMaximum)
             = op.pre.sfan.params.percoff_value)
       => (nset = 0 /\ pubs = <<>> /\ fault = "" /\ sfan = op.pre.sfan)

(***************************************************************************)
(* C11  A threshold write whose raw value is absent (None or empty) or     *)
(* cannot be parsed as a float substitutes the default: afterwards the     *)
(* threshold's current value equals its DEFAULT.                            *)
(***************************************************************************)
C11_DefaultSubstitution ==
    /\ (ThresholdWrite(ParamPercentageOn) /\ ~IsFloat(op.value))
       => sfan.params.percon_value = PercentageOnDefault
    /\ (ThresholdWrite(ParamPercentageOff) /\ ~IsFloat(op.value))
       => sfan.params.percoff_value = PercentageOffDefault

(***************************************************************************)
(* C12  Reset: the command reset handed to a device restores the current   *)
(* values of its thresholds (fan: percon and percoff; gateway: period) to  *)
(* their defaults, whatever they were, and triggers exactly one status     *)
(* republish.                                                               *)
(***************************************************************************)
FanReset ==
    /\ op.name = "process_own_command"
    /\ op.value = CommandReset
    /\ op.parameter = None
    /\ op.measure = None

GateReset ==
    /\ Addressed(DidGate, CategoryCommand, <<>>)
    /\ op.payload = CommandReset
    /\ Registered(DidGate)

C12_Reset ==
    /\ FanReset
       => /\ sfan.params.percon_value = PercentageOnDefault
          /\ sfan.params.percoff_value = PercentageOffDefault
          /\ nstatus = 1
    /\ GateReset
       => /\ iotgate.period = TimerDefault
          /\ iotgate.params.period_default = TimerDefault
          /\ nstatus = 1

(***************************************************************************)
(* Vocabulary of the router's error handling                                *)
(***************************************************************************)
\* the did is one of the registered devices
InRegistry(did) == did \in {devices[i] : i \in 1..Len(devices)}

\* separator-delimited segments of a topic
SegmentCount(topic) ==
    1 + Cardinality({i \in 1..Len(topic) : topic[i] = "/"})

\* the last message invoked no handler and changed, published, raised nothing
Untouched ==
    /\ calls = <<>>
    /\ pubs = <<>>
    /\ nset = 0
    /\ nstatus = 0
    /\ fault = ""
    /\ sfan = op.pre.sfan
    /\ iotgate = op.pre.iotgate

(***************************************************************************)
(* C13  Topic rejection: a message whose topic has 5 or more segments      *)
(* invokes no handler and changes no device state; the topic is dropped,   *)
(* the router never unpacks its first 4 segments.                           *)
(***************************************************************************)
C13_TopicRejection ==
    (IsMessage /\ SegmentCount(op.topic) >= 5)
    => (Untouched /\ op.parts = <<>>)

\* a too long topic that, cut to 4 segments, would command the gateway
C13_Witness ==
    \E tail \in TopicTails :
        /\ Len(tail) >= 3
        /\ Addressed(DidGate, CategoryCommand, tail)
        /\ op.payload = CommandReset
        /\ InRegistry(DidGate)
        /\ Untouched

(***************************************************************************)
(* C14  A message whose payload is absent or empty invokes no handler and  *)
(* changes no state, whatever its topic.                                    *)
(***************************************************************************)
C14_EmptyPayloadDiscarded ==
    (IsMessage /\ op.payload \in {None, ""}) => Untouched

\* an empty command with a valid topic for the registered gateway
C14_Witness ==
    \E tail \in ValidTails :
        /\ Addressed(DidGate, CategoryCommand, tail)
        /\ op.payload = ""
        /\ InRegistry(DidGate)
        /\ Untouched

(***************************************************************************)
(* C15  Topic round trip: for a 4-tuple (did, category, parameter,         *)
(* measure) of non-empty segments without separator, the router's parse of *)
(* the segments joined with the separator is the same 4-tuple.              *)
(***************************************************************************)
RoundTripTuples ==
    {<<d, cat>> \o t :
        d \in TopicDids,
        cat \in {CategoryCommand, CategoryStatus, CategoryData},
        t \in {tail \in TopicTails : Len(tail) = 2}}
    \cup {<<"ghost", "event", "any", "thing">>}

C15_TopicRoundTrip ==
    \A t \in RoundTripTuples :
        (IsMessage /\ Truthy(op.payload) /\ op.topic = Join(t))
        => op.parts = t

\* the router parsed a full topic of a category it does not know
C15_Witness ==
    /\ IsMessage
    /\ Truthy(op.payload)
    /\ op.topic = Join(<<"ghost", "event", "any", "thing">>)
    /\ op.parts = <<"ghost", "event", "any", "thing">>

(***************************************************************************)
(* C16  A COMMAND message whose did matches no registered device invokes   *)
(* no handler, changes no store, threshold, period or actuator state, and  *)
(* publishes nothing.                                                       *)
(***************************************************************************)
C16_UnaddressedCommand ==
    \A d \in TopicDids, tail \in TopicTails :
        (Addressed(d, CategoryCommand, tail) /\ ~InRegistry(d))
        => Untouched

\* a well-formed, non-empty command for a device that is not registered
C16_Witness ==
    \E d \in TopicDids, tail \in ValidTails :
        /\ Addressed(d, CategoryCommand, tail)
        /\ ~InRegistry(d)
        /\ Truthy(op.payload)
        /\ devices # <<>>
        /\ Untouched

(***************************************************************************)
(* C17  A STATUS or DATA message whose did is not in the registry still    *)
(* makes the router invoke the matching handler exactly once on every      *)
(* registered device, and the dispatch ends without raising.                *)
(***************************************************************************)
C17_UnknownSourceBroadcast ==
    \A d \in TopicDids, tail \in ValidTails,
       category \in {CategoryStatus, CategoryData} :
        (Addressed(d, category, tail) /\ Truthy(op.payload) /\ ~InRegistry(d))
        => /\ fault = ""
           /\ \A r \in RegistryDids :
                InRegistry(r)
                => CountCalls(LAMBDA call :
                       /\ call.device = r
                       /\ call.method = BroadcastHandler(category)) = 1

(***************************************************************************)
(* C18  Handler fault isolation: when the handler of one device raises     *)
(* while a STATUS or DATA message is dispatched, the router still invokes  *)
(* the handler of every other registered device (the source excepted), and *)
(* the fault does not leave the inbound-message callback.                   *)
(***************************************************************************)
C18_HandlerFaultIsolation ==
    \A d \in TopicDids, tail \in ValidTails,
       category \in {CategoryStatus, CategoryData} :
        (/\ Addressed(d, category, tail)
         /\ \E i \in 1..Len(calls) : calls[i].device \in op.faulty)
        => /\ fault = ""
           /\ \A r \in RegistryDids :
                (InRegistry(r) /\ r # d)
                => \E i \in 1..Len(calls) :
                      /\ calls[i].device = r
                      /\ calls[i].method = BroadcastHandler(category)

(***************************************************************************)
(* C19  The router invokes device handlers only while the connection       *)
(* status is CONNECTED: a message handed to the callback while the status  *)
(* is DISCONNECTED or CONNECTING invokes no handler.                        *)
(***************************************************************************)
C19_DispatchOnlyWhileConnected ==
    (IsMessage /\ op.connection # "CONNECTED") => calls = <<>>

(***************************************************************************)
(* C20  Inbound messages are handled one at a time in the order the        *)
(* transport delivers them: what the gateway did is, message by message in *)
(* delivery order, the callback being entered, its handler invocations for *)
(* that message, and the callback being left; a message published by a     *)
(* handler is not dispatched inside the current dispatch, it comes back    *)
(* through the transport.                                                   *)
(***************************************************************************)
Entered == SelectSeq(history, LAMBDA e : e.event = "enter")

MessageOf(m) == [topic |-> m.topic, payload |-> m.payload]

GetStatus(name) ==
    /\ op.name = name
    /\ op.value = CommandGetStatus
    /\ op.parameter = None
    /\ op.measure = None

C29_OffThresholdIsCurrentValue ==
    /\ percoff(Context) = sfan.params.percoff_value
    /\ (Evaluated /\ op.pre.sfan.pin = "HIGH")
       => (sfan.pin = "LOW"
           <=> Float(op.value) <= op.pre.sfan.params.percoff_value)

(***************************************************************************)
(* C30  A threshold command or a reset handled while no valid temperature  *)
(* percentage has been received yet causes no fault and no actuator        *)
(* transition.                                                              *)
(***************************************************************************)
C30_NoEvaluateWithoutValue ==
    (/\ \/ ThresholdWrite(ParamPercentageOn)
        \/ ThresholdWrite(ParamPercentageOff)
        \/ FanReset
     /\ op.pre.sfan.percentage = <<>>)
    => (fault = "" /\ sfan.pin = op.pre.sfan.pin)

(***************************************************************************)
(* Vocabulary of the lifecycle properties                                   *)
(***************************************************************************)
\* the positions in the history where the gateway did `event` on `device`
Steps(event, device) ==
    {i \in 1..Len(history) :
        history[i].event = event /\ history[i].device = device}

OtherDevices == {d \in RegistryDids : InRegistry(d) /\ d # DidGate}

(***************************************************************************)
(* C23  Shutdown ordering in the gateway's finish(): the reconnect trigger *)
(* is stopped and finish() is invoked exactly once on every other          *)
(* registered device before OFFLINE is published, and OFFLINE is published *)
(* before the broker client is disconnected.                                *)
(***************************************************************************)
C23_ShutdownOrdering ==
    op.name = "finish"
    => /\ Cardinality(Steps("publish_offline", DidGate)) = 1
       /\ Cardinality(Steps("disconnect", DidGate)) = 1
       /\ \A off \in Steps("publish_offline", DidGate) :
             /\ \E stop \in Steps("timer.stop", DidGate) : stop < off
             /\ \A d \in OtherDevices :
                   /\ Cardinality(Steps("finish", d)) = 1
                   /\ \A f \in Steps("finish", d) : f < off
             /\ \A dis \in Steps("disconnect", DidGate) : off < dis
       /\ DidGate \notin life.timers

\* the gateway with two other devices has been shut down
C23_Witness ==
    /\ op.name = "finish"
    /\ Cardinality(OtherDevices) = 2
    /\ InRegistry(DidGate)
    /\ connection = "DISCONNECTED"

(***************************************************************************)
(* C26  TransportFailure: a failure raised by reconnect() inside the       *)
(* reconnect trigger's callback, of whatever kind, never propagates out of *)
(* the callback, and the trigger keeps running.                             *)
(***************************************************************************)
C26_ReconnectFailureContained ==
    op.name = "_callback_timer_reconnect"
    => (fault = "" /\ DidGate \in life.timers)

(***************************************************************************)
(* C27  Startup wiring in the gateway's begin(): every registered device   *)
(* other than the gateway gets the shared broker client before its begin() *)
(* is invoked, begin() is invoked exactly once per device, the topic of    *)
(* every registered device, the gateway included, is subscribed, and the   *)
(* reconnect trigger is started only after all devices have begun.          *)
(***************************************************************************)
C27_StartupWiring ==
    op.name = "begin"
    => /\ \A d \in OtherDevices :
             /\ Cardinality(Steps("begin", d)) = 1
             /\ Cardinality(Steps("assign_client", d)) = 1
             /\ \A a \in Steps("assign_client", d), b \in Steps("begin", d) :
                   a < b
       /\ Steps("begin", DidGate) = {}
       /\ \A d \in RegistryDids :
             InRegistry(d) => Cardinality(Steps("subscribe", d)) = 1
       /\ Cardinality(Steps("timer.start", DidGate)) = 1
       /\ \A t \in Steps("timer.start", DidGate), d \in OtherDevices :
             \A b \in Steps("begin", d) : b < t

\* the gateway with two other devices has been started
C27_Witness ==
    /\ op.name = "begin"
    /\ Cardinality(OtherDevices) = 2
    /\ InRegistry(DidGate)
    /\ life.timers = {DidGate, DidServer}

(***************************************************************************)
(* Vocabulary of the cloud properties                                       *)
(***************************************************************************)
\* every two successive publishes to the cloud are at least `gap` apart
Spaced(gap) ==
    \A i \in 1..(Len(cloud) - 1) : cloud[i + 1].time - cloud[i].time >= gap

\* the last operation called publish_buffer less than MINIMUM after a publish
TooEarly ==
    /\ op.name \in {"_callback_timer_publish", "process_status"}
    /\ op.called
    /\ op.at.started
    /\ op.at.timestamp # <<>>
    /\ now - op.at.timestamp[1] < CloudTimerMinimum

(***************************************************************************)
(* C24  Cancellation: once a device's finish() has returned, that device's *)
(* periodic trigger is stopped and its callback never runs again (here the *)
(* ThingSpeak plugin and its cloud publication).                            *)
(***************************************************************************)
C24_Cancellation ==
    tspeak.finished
    => (tspeak.timer = "idle" /\ op.name # "_callback_timer_publish")

(***************************************************************************)
(* C25  For a single device, the execution of an inbound-message handler   *)
(* and of its own trigger's callback are mutually exclusive: publish_buffer *)
(* started by the timer and publish_buffer started by process_status never *)
(* interleave, so both never pass the elapsed-time check and publish to    *)
(* the cloud twice.                                                         *)
(***************************************************************************)
C25_HandlerAndCallbackExclusive ==
    /\ ~(pc["timer"].at # "idle" /\ pc["mqtt"].at # "idle")
    /\ \A i \in 1..(Len(cloud) - 1) :
          cloud[i + 1].time >= cloud[i].time + CloudTimerMinimum

(***************************************************************************)
(* C28  ThingSpeak publishes only at allowed intervals: with timer firings *)
(* and fan-status messages handled one at a time, any two successful cloud *)
(* publishes are at least Timer.MINIMUM apart, and a publish_buffer call   *)
(* less than Timer.MINIMUM after the last successful publish sends nothing *)
(* and changes neither the buffer nor the timestamp.                        *)
(***************************************************************************)
C28_PublishInterval ==
    /\ Spaced(CloudTimerMinimum)
    /\ TooEarly => (cloud = op.cloud /\ tspeak = op.at /\ pubs = <<>>)

\* the cloud got two publishes and a publish_buffer call came too early
C28_Witness ==
    /\ TooEarly
    /\ op.name = "process_status"
    /\ Len(cloud) >= 2

(***************************************************************************)
(* Vocabulary of the actuator properties                                    *)
(***************************************************************************)
\* what evaluate yields for the pin, the monitored value and the thresholds
EvaluatePin(pin, m, on, off) ==
    IF pin = "LOW"
    THEN IF m >= on THEN "HIGH" ELSE "LOW"
    ELSE IF m <= off THEN "LOW" ELSE "HIGH"

\* the ACTIVITY publications of the last operation, in order
Runs == SelectSeq(pubs, LAMBDA m : m.parameter = ParamFanActivity)

GenericCommands ==
    {CommandGetStatus, CommandReset, CommandTurnOn, CommandTurnOff,
     CommandToggle}

\* the last operation left the fan and the gateway as they were
NothingDone ==
    /\ sfan = op.pre.sfan
    /\ iotgate = op.pre.iotgate
    /\ pubs = <<>>
    /\ nstatus = 0
    /\ nset = 0
    /\ fault = ""

(***************************************************************************)
(* C31  After a threshold write that changes percon or percoff, the        *)
(* actuator is re-evaluated against the cached monitored percentage in the *)
(* same command handling: the resulting state is what evaluate yields for  *)
(* that percentage with the new thresholds.                                 *)
(***************************************************************************)
C31_ReevaluatedAfterWrite ==
    (/\ ThresholdWrite(ParamPercentageOn) \/ ThresholdWrite(ParamPercentageOff)
     /\ op.pre.sfan.percentage # <<>>
     /\ \/ sfan.params.percon_value # op.pre.sfan.params.percon_value
        \/ sfan.params.percoff_value # op.pre.sfan.params.percoff_value)
    => /\ fault = ""
       /\ sfan.pin = EvaluatePin(op.pre.sfan.pin, op.pre.sfan.percentage[1],
                                 sfan.params.percon_value,
                                 sfan.params.percoff_value)

(***************************************************************************)
(* C32  In every reachable state of the fan the current on threshold lies  *)
(* in [80, 95] and the current off threshold in [50, 75], hence the on     *)
(* threshold is greater than the off threshold.                             *)
(***************************************************************************)
C32_ThresholdRanges ==
    /\ sfan.params.percon_value >= PercentageOnMinimum
    /\ sfan.params.percon_value <= PercentageOnMaximum
    /\ sfan.params.percoff_value >= PercentageOffMinimum
    /\ sfan.params.percoff_value <= PercentageOffMaximum
    /\ sfan.params.percon_value > sfan.params.percoff_value

(***************************************************************************)
(* C33  In every reachable state of the fan the stored ACTIVITY parameter  *)
(* equals the activity derived from the pin.                                *)
(***************************************************************************)
C33_ActivityMatchesPin == sfan.params.run = ActivityOf(sfan.pin)

\* a toggle command turned the fan on and the store followed
C33_Witness ==
    /\ op.name = "process_own_command"
    /\ op.value = CommandToggle
    /\ op.pre.sfan.pin = "LOW"
    /\ sfan.pin = "HIGH"
    /\ sfan.params.run = StatusActive

(***************************************************************************)
(* C34  Every ACTIVITY publication of the actuation path reports a value   *)
(* different from the previous one (the first one different from IDLE); a  *)
(* turn-on command while ACTIVE and a turn-off command while IDLE change   *)
(* nothing and publish nothing.  The ACTIVITY parameter is stored with     *)
(* every such publication, so its value before an operation is the value   *)
(* of the previous publication.                                             *)
(***************************************************************************)
C34_ActivityPublicationsAlternate ==
    op.name \in {"process_own_command", "process_data"}
    => /\ \A i \in 1..Len(Runs) :
             Runs[i].payload # (IF i = 1 THEN op.pre.sfan.params.run
                                         ELSE Runs[i - 1].payload)
       /\ (/\ op.name = "process_own_command"
           /\ op.parameter = None /\ op.measure = None
           /\ \/ op.value = CommandTurnOn /\ op.pre.sfan.pin = "HIGH"
              \/ op.value = CommandTurnOff /\ op.pre.sfan.pin = "LOW")
          => NothingDone

\* a turn-on command reached the fan while it was ACTIVE
C34_Witness ==
    /\ op.name = "process_own_command"
    /\ op.parameter = None /\ op.measure = None
    /\ op.value = CommandTurnOn
    /\ op.pre.sfan.pin = "HIGH"
    /\ pubs = <<>>

(***************************************************************************)
(* C35  Generic commands are acted on only when the command carries        *)
(* neither parameter nor measure; with a parameter or a measure present    *)
(* the payload is never taken as a generic command, and a parameter        *)
(* command is acted on only for the (parameter, 'value') pair the device   *)
(* owns.                                                                    *)
(***************************************************************************)
C35_GenericCommandsNeedBareTopic ==
    LET bare == op.parameter = None /\ op.measure = None
        address == <<op.parameter, op.measure>>
    IN  /\ op.name = "process_own_command"
           => /\ (~bare /\ op.value \in GenericCommands) => NothingDone
              /\ (/\ ~bare
                  /\ address \notin {<<ParamPercentageOn, MeasureValue>>,
                                     <<ParamPercentageOff, MeasureValue>>})
                 => NothingDone
        /\ op.name = "process_command"
           => /\ (~bare /\ op.value \in GenericCommands) => NothingDone
              /\ (~bare /\ address # <<ParamPeriod, MeasureValue>>)
                 => NothingDone

\* a toggle with a parameter in its topic reached the ACTIVE fan
C35_Witness ==
    /\ op.name = "process_own_command"
    /\ op.parameter = ParamPercentageOn
    /\ op.measure = None
    /\ op.value = CommandToggle
    /\ sfan.pin = "HIGH"

(***************************************************************************)
(* Vocabulary of the cloud buffer properties                                *)
(***************************************************************************)
\* the last operation called publish_buffer of the started plugin at a time
\* when publishing is allowed
Attempted ==
    /\ op.name \in {"_callback_timer_publish", "process_status"}
    /\ op.called
    /\ op.at.started
    /\ op.at.timestamp # <<>> => now - op.at.timestamp[1] >= CloudTimerMinimum

\* the last operation published to the cloud
Published == Attempted /\ Len(cloud) = Len(op.cloud) + 1

\* the fields a buffer offers: the fan status if one is waiting and the
\* temperature if one was received
Offered(buffer) ==
    LET status == IF buffer.status # None
                  THEN <<"status=" \o buffer.status>>
                  ELSE <<>>
        field1 == IF buffer.field1 # <<>>
                  THEN <<"field1=" \o ToString(buffer.field1[1]) \o ".0">>
                  ELSE <<>>
    IN  status \o field1

(***************************************************************************)
(* C36  If the cloud publish fails with a name-resolution error,           *)
(* publish_buffer leaves the buffer and the last-publish timestamp as they *)
(* were and publishes no DATA 'cloud' message to the broker.                *)
(***************************************************************************)
C36_FailedPublishKeepsBuffer ==
    (Attempted /\ op.outcome = "gaierror")
    => /\ tspeak.status = op.at.status
       /\ tspeak.field1 = op.at.field1
       /\ tspeak.timestamp = op.at.timestamp
       /\ pubs = <<>>
       /\ cloud = op.cloud
       /\ fault = ""

\* a publish of a waiting fan status failed, 15 s or more after the last one
C36_Witness ==
    /\ Attempted
    /\ op.outcome = "gaierror"
    /\ op.at.timestamp # <<>>
    /\ tspeak.status # None

(***************************************************************************)
(* C37  Each fan status received by ThingSpeak goes into at most one       *)
(* successful cloud publish (the status is cleared after a successful      *)
(* publish), the last received temperature is kept and goes into every     *)
(* later publish, and a publish with no field to offer sends nothing and   *)
(* does not update the timestamp.                                           *)
(***************************************************************************)
C37_BufferFields ==
    /\ Published
       => /\ tspeak.status = None
          /\ tspeak.field1 = op.at.field1
          /\ LET items == Offered(op.at)
                 sent == cloud[Len(cloud)].payload
             IN  /\ items # <<>>
                 /\ Len(items) = 1 => sent = items[1]
                 /\ Len(items) = 2 => sent = items[1] \o "&" \o items[2]
    /\ (Attempted /\ Offered(op.at) = <<>>)
       => (cloud = op.cloud /\ tspeak.timestamp = op.at.timestamp)

(***************************************************************************)
(* C38  For every device owning a periodic trigger (server, thingspeak,    *)
(* gateway), in every reachable state the device's current period lies in  *)
(* [Timer.MINIMUM, Timer.MAXIMUM] and the trigger's period equals the      *)
(* device's current period.                                                 *)
(***************************************************************************)
C38_PeriodRanges ==
    /\ server.period >= ServerTimerMinimum
    /\ server.period <= ServerTimerMaximum
    /\ server.timer_period = server.period
    /\ tspeak.period >= CloudTimerMinimum
    /\ tspeak.period <= CloudTimerMaximum
    /\ tspeak.timer_period = tspeak.period
    /\ iotgate.period >= TimerMinimum
    /\ iotgate.period <= TimerMaximum
    /\ iotgate.timer_period = iotgate.period

(***************************************************************************)
(* C39  Between the gateway's begin() and finish(), the reconnect trigger  *)
(* calls reconnect() at a firing if and only if the broker client is not   *)
(* connected; hence, under fair firing of the trigger, whenever the client *)
(* is disconnected and the transport eventually accepts a reconnect, the   *)
(* client eventually becomes connected again.                               *)
(***************************************************************************)
C39_ReconnectUntilConnected ==
    /\ [](op.name = "_callback_timer_reconnect"
            => /\ op.connection # "CONNECTED" => calls = <<Reconnect>>
               /\ op.connection = "CONNECTED" => calls = <<>>)
    /\ (life.phase = "running" /\ connection # "CONNECTED")
           ~> (connection = "CONNECTED" \/ life.phase # "running")

\* a firing found the client disconnected, the transport accepted the
\* reconnect and the broker granted the connection
C39_Witness ==
    /\ op.name = "_callback_timer_reconnect"
    /\ op.outcome = "ok"
    /\ op.connection = "DISCONNECTED"
    /\ calls = <<Reconnect>>
    /\ life.phase = "running"
    /\ connection = "CONNECTED"

====
